---- MODULE Spec2Model ----
(***************************************************************************)
(* Model of omniforge's verified SAT execution and certification pipeline: *)
(*   lanes/sat_lane.py   _parse_dimacs_status, run_sat_two_checker         *)
(*   artifacts/pack.py   create_demo_run_bundle, verify_run_bundle_hashes  *)
(* Text (solver output, file contents) is a sequence of characters, each   *)
(* a one-character string or, outside ASCII, the name of its code point;   *)
(* an Optional value is a sequence of length 0 (None) or 1.                *)
(***************************************************************************)
EXTENDS FiniteSets, Integers, Sequences, TLC

(* ------------------------------ bounds --------------------------------- *)

\* Largest number of lines in a scripted solver standard output.
MaxLines == 2
\* Largest number of files changed or deleted after the bundle was created.
MaxChanges == 1

(* ------------------------------ Optional ------------------------------ *)

None == <<>>
Some(x) == <<x>>
IsNone(o) == Len(o) = 0
IsSome(o) == Len(o) = 1

(* ------------------------- text vocabulary ----------------------------- *)

LineUnsat == <<"s", " ", "U", "N", "S", "A", "T", "I", "S", "F", "I", "A", "B", "L", "E">>
LineSat == <<"s", " ", "S", "A", "T", "I", "S", "F", "I", "A", "B", "L", "E">>
LineUnknown == <<"s", " ", "U", "N", "K", "N", "O", "W", "N">>
LineOther == <<"s", " ", "I", "N", "D", "E", "T", "E", "R", "M", "I", "N", "A", "T", "E">>
LineComment == <<"c", " ", "S", "A", "T", " ", "s", "o", "l", "v", "e", "r">>
LinePadded == <<" ", " ", "s", " ", "S", "A", "T", "I", "S", "F", "I", "A", "B", "L", "E", " ">>
\* A comment, a form feed, a solution line and a unit separator: two lines
\* for str.splitlines, the second one padded for str.strip.
LineFormFeed == <<"c", " ", "x", "\f", "s", " ", "U", "N", "S", "A", "T", "I", "S", "F", "I", "A", "B", "L", "E", "">>

\* Lines a scripted solver may print.
LineVocab ==
    {LineUnsat, LineSat, LineUnknown, LineOther, LineComment, LinePadded,
     LineFormFeed}

RECURSIVE JoinLines(_)
\* The lines of ls, each terminated by a newline.
JoinLines(ls) ==
    IF Len(ls) = 0 THEN <<>> ELSE Head(ls) \o <<"\n">> \o JoinLines(Tail(ls))

\* Every solver standard output of at most MaxLines lines over LineVocab.
SolverOutputs ==
    { JoinLines(ls) : ls \in UNION { [1..n -> LineVocab] : n \in 0..MaxLines } }

(* --------------------- str methods used by the code -------------------- *)

\* The ASCII control characters U+000B, U+001C, U+001D, U+001E and U+001F,
\* written as the characters themselves.
VT == ""
FS == ""
GS == ""
RS == ""
US == ""

\* A character outside ASCII is written as the name of its code point, so
\* that a text reads the same under every charset: the text 'a', U+00A0, 'b'
\* is <<"a", "U+00A0", "b">>.
NEL == "U+0085"
NBSP == "U+00A0"
OghamSpace == "U+1680"
LS == "U+2028"
PS == "U+2029"
NNBSP == "U+202F"
MMSP == "U+205F"
IdeographicSpace == "U+3000"
\* The spaces U+2000 to U+200A.
GeneralSpaces ==
    {"U+2000", "U+2001", "U+2002", "U+2003", "U+2004", "U+2005", "U+2006",
     "U+2007", "U+2008", "U+2009", "U+200A"}

\* The line boundaries of str.splitlines.
LineBreaks == {"\n", "\r", VT, "\f", FS, GS, RS, NEL, LS, PS}
\* The characters str.strip removes (str.isspace).
Whitespace ==
    {" ", "\t", "\n", "\r", VT, "\f", FS, GS, RS, US, NEL, NBSP, OghamSpace,
     LS, PS, NNBSP, MMSP, IdeographicSpace} \cup GeneralSpaces

RECURSIVE splitlinesFrom(_, _, _)
splitlinesFrom(s, i, cur) ==
    IF i > Len(s)
    THEN IF Len(cur) = 0 THEN <<>> ELSE <<cur>>
    ELSE IF s[i] \in LineBreaks
         THEN LET j == IF s[i] = "\r" /\ i < Len(s) /\ s[i + 1] = "\n"
                       THEN i + 2 ELSE i + 1
              IN  <<cur>> \o splitlinesFrom(s, j, <<>>)
         ELSE splitlinesFrom(s, i + 1, Append(cur, s[i]))

\* str.splitlines(): the lines of s without their line breaks.
splitlines(s) == splitlinesFrom(s, 1, <<>>)

RECURSIVE lstrip(_)
lstrip(s) ==
    IF Len(s) > 0 /\ Head(s) \in Whitespace THEN lstrip(Tail(s)) ELSE s

RECURSIVE rstrip(_)
rstrip(s) ==
    IF Len(s) > 0 /\ s[Len(s)] \in Whitespace
    THEN rstrip(SubSeq(s, 1, Len(s) - 1)) ELSE s

\* str.strip()
strip(s) == rstrip(lstrip(s))

\* str.startswith(prefix)
startswith(s, prefix) ==
    Len(s) >= Len(prefix) /\ SubSeq(s, 1, Len(prefix)) = prefix

\* sub in s
contains(sub, s) ==
    \E i \in 1..(Len(s) - Len(sub) + 1) : SubSeq(s, i, i + Len(sub) - 1) = sub

(* ------------------------ _parse_dimacs_status ------------------------- *)

Marker == <<"s", " ">>
KwUnsat == <<"U", "N", "S", "A", "T">>
KwSat == <<"S", "A", "T">>
KwUnknown == <<"U", "N", "K", "N", "O", "W", "N">>

\* Variant of line_status that tests the satisfiable keyword first.
line_status_sat_first(line) ==
    IF contains(KwSat, line) THEN "SAT"
    ELSE IF contains(KwUnsat, line) THEN "UNSAT"
    ELSE IF contains(KwUnknown, line) THEN "UNKNOWN"
    ELSE ""

\* The three keyword tests made on a solution line; "" when none returns.
line_status(line) ==
    IF contains(KwUnsat, line) THEN "UNSAT"
    ELSE IF contains(KwSat, line) THEN "SAT"
    ELSE IF contains(KwUnknown, line) THEN "UNKNOWN"
    ELSE ""

RECURSIVE parse_lines(_)
\* The for loop over the lines: a solution line that matches no keyword
\* does not return, the loop goes on to the next line.
parse_lines(ls) ==
    IF Len(ls) = 0 THEN "UNKNOWN"
    ELSE LET line == strip(Head(ls))
         IN  IF startswith(line, Marker) /\ line_status(line) /= ""
             THEN line_status(line)
             ELSE parse_lines(Tail(ls))

_parse_dimacs_status(stdout) == parse_lines(splitlines(stdout))

(* ----------------------- environment vocabulary ------------------------ *)

TagDrat == <<"\n", "m", "i", "s", "s", "i", "n", "g", " ", "o", "r", " ", "e", "m", "p", "t", "y", " ", "D", "R", "A", "T", " ", "p", "r", "o", "o", "f", "\n">>
TagLrat == <<"\n", "m", "i", "s", "s", "i", "n", "g", " ", "o", "r", " ", "e", "m", "p", "t", "y", " ", "L", "R", "A", "T", " ", "p", "r", "o", "o", "f", "\n">>
TagFailed == <<"\n", "U", "N", "S", "A", "T", " ", "p", "r", "o", "o", "f", " ", "v", "e", "r", "i", "f", "i", "c", "a", "t", "i", "o", "n", " ", "f", "a", "i", "l", "e", "d", " ", "(", "t", "w", "o", "-", "c", "h", "e", "c", "k", "e", "r", ")", "\n">>

\* Content of the benchmark fixture benches/sat/tiny/unsat_contradiction.cnf.
CnfText == <<"p", " ", "c", "n", "f", " ", "1", " ", "2", "\n", "1", " ", "0", "\n", "-", "1", " ", "0", "\n">>
DratProof == <<"0", "\n">>
LratProof == <<"3", " ", "0", " ", "1", " ", "2", " ", "0", "\n">>
SolverWarning == <<"c", " ", "w", "a", "r", "n", "i", "n", "g", "\n">>
CheckerStdout == <<"s", " ", "V", "E", "R", "I", "F", "I", "E", "D", "\n">>

Executables == {"cadical", "drat-trim", "lrat-trim"}

\* Exit codes a scripted solver may return (CaDiCaL: 10 = SAT, 20 = UNSAT).
SolverCodes == {0, 10, 20}
\* Exit codes a scripted checker may return.
CheckerCodes == {0, 1}
\* Standard error a scripted solver may print.
SolverStderrs == {<<>>, SolverWarning}
\* Output captured from a solver that is killed at the timeout; None when
\* nothing was read before the kill.
PartialOutputs == {None, Some(<<>>), Some(LineComment \o <<"\n">>),
                   Some(LineUnsat \o <<"\n">>)}
\* Standard error captured from a solver that is killed at the timeout.
PartialStderrs == {None, Some(SolverWarning)}
\* A directory at a path of the run directory: an entry that is neither
\* absent (None) nor a file with a content (Some).
Directory == <<"directory", "entry">>
\* st_size of a directory (not zero on ext4, xfs, tmpfs, overlayfs).
DirSize == 4096
\* What the solver left at proofs/proof.drat: nothing, an empty file, a
\* proof, a directory.
DratOutcomes == {<<>>, << <<>> >>, <<DratProof>>, Directory}
\* What the second solver invocation streamed to standard output.
LratOutcomes == {<<>>, LratProof}

(* ------------------------------ paths ---------------------------------- *)

InputCnf == "input.cnf"
StdoutTxt == "solver_stdout.txt"
StderrTxt == "solver_stderr.txt"
DratRel == "proofs/proof.drat"
LratRel == "proofs/proof.lrat"
DratChkRel == "proofcheck/drat-trim.json"
LratChkRel == "proofcheck/lrat-trim.json"
ManifestRel == "manifest.json"

Paths == {InputCnf, StdoutTxt, StderrTxt, DratRel, LratRel, DratChkRel,
          LratChkRel, ManifestRel}

\* The paths in code-point order, the order json.dumps(sort_keys=True) uses.
SortedPaths == <<InputCnf, ManifestRel, DratChkRel, LratChkRel, DratRel,
                 LratRel, StderrTxt, StdoutTxt>>

(* ------------------------------ state ---------------------------------- *)

VARIABLES
    exes,       \* executables present under tools/bin
    cnf_src,    \* Optional content of the benchmark fixture
    pc,         \* position of create_demo_run_bundle / run_sat_two_checker
    exc,        \* name of the exception that ended the call, "" if none
    dirs,       \* directories created so far
    fs,         \* run directory: path -> Optional content, or Directory
    p,          \* CompletedProcess of the first solver run
    e,          \* Optional TimeoutExpired of the first solver run
    status,     \* classification of the first solver run, "" before it
    chk_drat,   \* Optional ProofCheck of drat-trim
    res,        \* SatExecResult returned by run_sat_two_checker
    manifest,   \* Optional manifest dict held by create_demo_run_bundle
    spawned,    \* external processes spawned so far, in order
    changed,    \* files changed or deleted after create_demo_run_bundle ended
    verif,      \* Optional (ok, details) returned by verify_run_bundle_hashes
    cleanup     \* branch taken by the proof clean-up of a non-UNSAT run

vars == <<exes, cnf_src, pc, exc, dirs, fs, p, e, status, chk_drat,
          res, manifest, spawned, changed, verif, cleanup>>

env == <<exes, cnf_src>>

\* The solver command line of the first run (seed 0, fixed paths).
cmd == <<"cadical", "--seed=0", "--no-binary", InputCnf, DratRel>>

NoProcess == [stdout |-> <<>>, stderr |-> <<>>, returncode |-> 0]

NoResult ==
    [result |-> "", stdout |-> <<>>, stderr |-> <<>>, commandline |-> <<>>,
     drat_relpath |-> None, lrat_relpath |-> None,
     check_drat |-> None, check_lrat |-> None]

Init ==
    /\ exes \in SUBSET Executables
    /\ cnf_src \in {None, Some(CnfText)}
    /\ pc = "start"
    /\ exc = ""
    /\ dirs = {}
    /\ fs = [f \in Paths |-> None]
    /\ p = NoProcess
    /\ e = None
    /\ status = ""
    /\ chk_drat = None
    /\ res = NoResult
    /\ manifest = None
    /\ spawned = <<>>
    /\ changed = {}
    /\ verif = None
    /\ cleanup = "none"

(* ------------------------------ pathlib -------------------------------- *)

\* Path.exists()
exists(files, path) == Len(files[path]) > 0

\* Path.is_dir()
is_dir(files, path) == Len(files[path]) = Len(Directory)

\* Path.is_file()
is_file(files, path) == IsSome(files[path])

\* Path.stat().st_size
st_size(files, path) ==
    IF is_dir(files, path) THEN DirSize ELSE Len(files[path][1])

(* ------------------------- run_sat_two_checker ------------------------- *)

SatExecResult(result, out, err, drat, lrat, cd, cl) ==
    [result |-> result, stdout |-> out, stderr |-> err, commandline |-> cmd,
     drat_relpath |-> drat, lrat_relpath |-> lrat,
     check_drat |-> cd, check_lrat |-> cl]

ProofCheck(checker, returncode, out, err) ==
    [checker |-> checker, ok |-> (returncode = 0), returncode |-> returncode,
     stdout |-> out, stderr |-> err]

\* ProofCheck.to_json: the JSON object with the five fields of the record.
to_json(self) ==
    [checker |-> self.checker, ok |-> self.ok, returncode |-> self.returncode,
     stdout |-> self.stdout, stderr |-> self.stderr]

Raise(name) ==
    /\ pc' = "raised"
    /\ exc' = name

\* Variant of cnf_missing that never reports the fixture missing.
cnf_missing_unchecked(src) == FALSE

\* pack.py 28: not cnf_src.exists()
cnf_missing(src) == IsNone(src)

\* pack.py 20-32: make the run directory, require the fixture, copy it.
StartBundle ==
    /\ pc = "start"
    /\ dirs' = dirs \cup {"run"}
    /\ IF cnf_missing(cnf_src)
       THEN /\ Raise("FileNotFoundError")
            /\ fs' = fs
       ELSE /\ fs' = [fs EXCEPT ![InputCnf] = cnf_src]
            /\ pc' = "require_exe"
            /\ exc' = exc
    /\ UNCHANGED <<env, cleanup, p, e, status, chk_drat, res, manifest, spawned, changed,
                   verif>>

\* sat_lane.py 86-101: the three _require_exe calls, then the two mkdirs.
RequireExes ==
    /\ pc = "require_exe"
    /\ IF exes /= Executables
       THEN /\ Raise("FileNotFoundError")
            /\ dirs' = dirs
       ELSE /\ dirs' = dirs \cup {"proofs", "proofcheck"}
            /\ pc' = "run_solver"
            /\ exc' = exc
    /\ UNCHANGED <<env, cleanup, fs, p, e, status, chk_drat, res, manifest, spawned,
                   changed, verif>>

\* x or "" on an Optional text.
or_empty(x) == IF IsNone(x) THEN <<>> ELSE x[1]

\* Variant of timeout_result that drops the captured output.
timeout_result_no_output(ex) ==
    SatExecResult("TIMEOUT", <<>>, <<>>, None, None, None, None)

\* sat_lane.py 115-124: the result built in the except clause.
timeout_result(ex) ==
    SatExecResult("TIMEOUT", or_empty(ex.stdout), or_empty(ex.stderr),
                  None, None, None, None)

\* sat_lane.py 112-124: the first solver run exceeds wall_seconds.
RunSolverTimeout ==
    /\ pc = "run_solver"
    /\ \E out \in PartialOutputs, err \in PartialStderrs, drat \in DratOutcomes :
          LET ex == [stdout |-> out, stderr |-> err]
          IN  /\ e' = Some(ex)
              /\ fs' = [fs EXCEPT ![DratRel] = drat]
              /\ res' = timeout_result(ex)
    /\ spawned' = Append(spawned, "cadical-drat")
    /\ pc' = "returned"
    /\ UNCHANGED <<env, cleanup, exc, dirs, p, status, chk_drat, manifest, changed,
                   verif>>

\* Variant of non_unsat_result that trusts the status whatever the exit code.
non_unsat_result_any_exit(st, rc) == st

\* sat_lane.py 138: the result of a run not classified UNSAT.
non_unsat_result(st, rc) == IF rc = 0 THEN st ELSE "ERROR"

\* sat_lane.py 134: drat_path.unlink() raises. It always does on a directory
\* (IsADirectoryError); on a file it does when the operating system denies
\* the removal (PermissionError, for instance after the solver took the
\* write permission from proofs/).
unlink_raises(files, denied) == is_dir(files, DratRel) \/ denied

\* sat_lane.py 132-136: the branch the clean-up takes: the path does not
\* exist, unlink removes it, or unlink raises and the except clause
\* swallows the error.
cleanup_branch(files, denied) ==
    IF ~exists(files, DratRel) THEN "absent"
    ELSE IF unlink_raises(files, denied) THEN "failed"
    ELSE "deleted"

\* Variant of unlink_proof that leaves the proof file in place.
unlink_proof_skipped(files, denied) == files

\* sat_lane.py 132-136: the files after the clean-up; a path whose unlink
\* raised stays as it is.
unlink_proof(files, denied) ==
    IF cleanup_branch(files, denied) = "deleted"
    THEN [files EXCEPT ![DratRel] = None]
    ELSE files

\* Variant of drat_missing_or_empty that does not look at the size.
drat_missing(files) == ~exists(files, DratRel)

\* sat_lane.py 149: (not drat_path.exists()) or drat_path.stat().st_size == 0
drat_missing_or_empty(files) ==
    ~exists(files, DratRel) \/ st_size(files, DratRel) = 0

\* sat_lane.py 112-159: the first solver run completes; classify its output,
\* stop on a status other than UNSAT or on a missing or empty DRAT proof.
RunSolver ==
    /\ pc = "run_solver"
    /\ \E out \in SolverOutputs, err \in SolverStderrs, rc \in SolverCodes,
          drat \in DratOutcomes, denied \in BOOLEAN :
          LET st == _parse_dimacs_status(out)
              written == [fs EXCEPT ![DratRel] = drat]
          IN  /\ p' = [stdout |-> out, stderr |-> err, returncode |-> rc]
              /\ status' = st
              /\ IF st /= "UNSAT"
                 THEN /\ fs' = unlink_proof(written, denied)
                      /\ cleanup' = cleanup_branch(written, denied)
                      /\ res' = SatExecResult(non_unsat_result(st, rc),
                                              out, err, None, None, None, None)
                      /\ pc' = "returned"
                 ELSE /\ fs' = written
                      /\ cleanup' = cleanup
                      /\ IF drat_missing_or_empty(written)
                         THEN /\ res' = SatExecResult("ERROR", out,
                                            err \o TagDrat, None, None, None,
                                            None)
                              /\ pc' = "returned"
                         ELSE /\ res' = res
                              /\ pc' = "check_drat"
    /\ spawned' = Append(spawned, "cadical-drat")
    /\ UNCHANGED <<env, exc, dirs, e, chk_drat, manifest, changed, verif>>

\* Variant of CheckDrat that returns ERROR at once when drat-trim fails.
CheckDratShortCircuit ==
    /\ pc = "check_drat"
    /\ \E rc \in CheckerCodes :
          LET chk == ProofCheck("drat-trim", rc, CheckerStdout, <<>>)
          IN  /\ chk_drat' = Some(chk)
              /\ fs' = [fs EXCEPT ![DratChkRel] = Some(to_json(chk))]
              /\ IF chk.ok
                 THEN /\ res' = res
                      /\ pc' = "produce_lrat"
                 ELSE /\ res' = SatExecResult("ERROR", p.stdout,
                                    p.stderr \o TagFailed, Some(DratRel),
                                    None, Some(chk), None)
                      /\ pc' = "returned"
    /\ spawned' = Append(spawned, "drat-trim")
    /\ UNCHANGED <<env, cleanup, exc, dirs, p, e, status, manifest, changed, verif>>

\* sat_lane.py 161-170: run drat-trim, record and persist its ProofCheck.
CheckDrat ==
    /\ pc = "check_drat"
    /\ \E rc \in CheckerCodes :
          LET chk == ProofCheck("drat-trim", rc, CheckerStdout, <<>>)
          IN  /\ chk_drat' = Some(chk)
              /\ fs' = [fs EXCEPT ![DratChkRel] = Some(to_json(chk))]
    /\ spawned' = Append(spawned, "drat-trim")
    /\ pc' = "produce_lrat"
    /\ UNCHANGED <<env, cleanup, exc, dirs, p, e, status, res, manifest, changed, verif>>

\* sat_lane.py 175-179: the second solver run exceeds wall_seconds; the
\* TimeoutExpired of subprocess.run is not caught.
ProduceLratTimeout ==
    /\ pc = "produce_lrat"
    /\ spawned' = Append(spawned, "cadical-lrat")
    /\ Raise("TimeoutExpired")
    /\ UNCHANGED <<env, cleanup, dirs, fs, p, e, status, chk_drat, res, manifest, changed,
                   verif>>

\* Variant of lrat_empty_result that discards the DRAT stage.
lrat_empty_result_discards(cp, cd) ==
    SatExecResult("ERROR", cp.stdout, cp.stderr \o TagLrat, None, None, None,
                  None)

\* Variant of lrat_empty_result that keeps the DRAT path without its record.
lrat_empty_result_no_record(cp, cd) ==
    SatExecResult("ERROR", cp.stdout, cp.stderr \o TagLrat, Some(DratRel),
                  None, None, None)

\* sat_lane.py 184-193: the result returned on an empty LRAT proof.
lrat_empty_result(cp, cd) ==
    SatExecResult("ERROR", cp.stdout, cp.stderr \o TagLrat, Some(DratRel),
                  None, cd, None)

\* sat_lane.py 175-193: the second solver run streams the LRAT proof, which
\* is written to proofs/proof.lrat; an empty file ends the run in ERROR.
ProduceLrat ==
    /\ pc = "produce_lrat"
    /\ \E lrat_text \in LratOutcomes :
          /\ fs' = [fs EXCEPT ![LratRel] = Some(lrat_text)]
          /\ IF Len(lrat_text) = 0
             THEN /\ res' = lrat_empty_result(p, chk_drat)
                  /\ pc' = "returned"
             ELSE /\ res' = res
                  /\ pc' = "check_lrat"
    /\ spawned' = Append(spawned, "cadical-lrat")
    /\ UNCHANGED <<env, cleanup, exc, dirs, p, e, status, chk_drat, manifest, changed,
                   verif>>

\* Variant of decide that accepts when either checker succeeded.
decide_either(cd, cl) == IF ~(cd.ok \/ cl.ok) THEN "ERROR" ELSE "UNSAT"

\* Variant of decide that consults the last checker only.
decide_lrat_only(cd, cl) == IF ~cl.ok THEN "ERROR" ELSE "UNSAT"

\* sat_lane.py 207-220: fail-closed decision on the two check records.
decide(cd, cl) == IF ~(cd.ok /\ cl.ok) THEN "ERROR" ELSE "UNSAT"

\* sat_lane.py 196-228: run lrat-trim, record and persist its ProofCheck,
\* then decide.
CheckLrat ==
    /\ pc = "check_lrat"
    /\ \E rc \in CheckerCodes :
          LET chk_lrat == ProofCheck("lrat-trim", rc, CheckerStdout, <<>>)
              result == decide(chk_drat[1], chk_lrat)
          IN  /\ fs' = [fs EXCEPT ![LratChkRel] = Some(to_json(chk_lrat))]
              /\ res' = SatExecResult(result, p.stdout,
                            IF result = "ERROR" THEN p.stderr \o TagFailed
                                                ELSE p.stderr,
                            Some(DratRel), Some(LratRel), chk_drat,
                            Some(chk_lrat))
    /\ spawned' = Append(spawned, "lrat-trim")
    /\ pc' = "returned"
    /\ UNCHANGED <<env, cleanup, exc, dirs, p, e, status, chk_drat, manifest, changed,
                   verif>>

(* ----------------------- create_demo_run_bundle ------------------------ *)

\* Stand-in for omniforge.artifacts.manifest.sha256_file: the hex SHA-256 of
\* the file at path, taken as collision-free (equal digests, equal content).
sha256_file(files, path) == <<"sha256", files[path][1]>>

\* d[k] = v on a dict kept as a sequence of <<key, value>> in insertion order.
dict_set(d, k, v) ==
    IF \E i \in 1..Len(d) : d[i][1] = k
    THEN [i \in 1..Len(d) |-> IF d[i][1] = k THEN <<k, v>> ELSE d[i]]
    ELSE Append(d, <<k, v>>)

dict_keys(d) == { d[i][1] : i \in 1..Len(d) }

RECURSIVE sort_from(_, _)
sort_from(d, i) ==
    IF i > Len(SortedPaths) THEN <<>>
    ELSE SelectSeq(d, LAMBDA kv : kv[1] = SortedPaths[i]) \o sort_from(d, i + 1)

\* json.dumps(manifest, indent=2, sort_keys=True): the document, its hashes
\* dict written as a JSON object with the keys in sorted order. A JSON value
\* is kept with its type: [type |-> "object", items |-> <<key, value>> pairs].
json_dumps(m) ==
    [m EXCEPT !.hashes = [type |-> "object", items |-> sort_from(@, 1)]]

\* json.loads of a manifest file: the document, the values typed as in the
\* file and the keys of an object in file order.
json_loads(text) == text

\* isinstance(v, dict) on a value read by json.loads
is_dict(v) == v.type = "object"

\* pack.py 50-72: the manifest dict, hashes still empty.
new_manifest(r) ==
    [manifest_version |-> "0.3.0",
     run_id |-> "run_id",
     timestamp_utc |-> "timestamp_utc",
     lane |-> "sat",
     inputs |-> [bench_suite |-> "sat.tiny",
                 case_id |-> "tiny/unsat_contradiction.cnf",
                 bundle_cnf_path |-> InputCnf],
     candidate |-> [executor |-> "cadical",
                    genome |-> [seed |-> 0,
                                notes |-> "two-checker UNSAT verification"],
                    commandline |-> r.commandline,
                    proof_policy |-> [unsat_requires_two_checkers |-> TRUE,
                                      checkers |-> <<"drat-trim", "lrat-trim">>]],
     outputs |-> [result |-> r.result,
                  stdout_path |-> StdoutTxt,
                  stderr_path |-> StderrTxt,
                  drat_proof_path |-> r.drat_relpath,
                  lrat_proof_path |-> r.lrat_relpath,
                  drat_check_path |-> DratChkRel,
                  lrat_check_path |-> LratChkRel],
     hashes |-> <<>>]

\* Variant of demo_rejects that lets every result through.
demo_rejects_nothing(r) == FALSE

\* pack.py 43: res.result != "UNSAT"
demo_rejects(r) == r.result /= "UNSAT"

\* pack.py 43-75: require UNSAT, write the solver logs and the manifest with
\* an empty hashes map.
WriteManifest ==
    /\ pc = "returned"
    /\ IF demo_rejects(res)
       THEN /\ Raise("RuntimeError")
            /\ UNCHANGED <<fs, manifest>>
       ELSE LET m == new_manifest(res)
            IN  /\ manifest' = Some(m)
                /\ fs' = [fs EXCEPT ![StdoutTxt] = Some(res.stdout),
                                    ![StderrTxt] = Some(res.stderr),
                                    ![ManifestRel] = Some(json_dumps(m))]
                /\ pc' = "seal"
                /\ exc' = exc
    /\ UNCHANGED <<env, cleanup, dirs, p, e, status, chk_drat, res, spawned, changed,
                   verif>>

\* Variant of base_hashes that leaves the manifest out of its own hash map.
base_hashes_no_manifest(files) ==
    << <<InputCnf, sha256_file(files, InputCnf)>>,
       <<StdoutTxt, sha256_file(files, StdoutTxt)>>,
       <<StderrTxt, sha256_file(files, StderrTxt)>> >>

\* pack.py 78-83: the four hashes taken first.
base_hashes(files) ==
    << <<InputCnf, sha256_file(files, InputCnf)>>,
       <<StdoutTxt, sha256_file(files, StdoutTxt)>>,
       <<StderrTxt, sha256_file(files, StderrTxt)>>,
       <<ManifestRel, sha256_file(files, ManifestRel)>> >>

RECURSIVE add_hashes(_, _, _)
\* pack.py 85-87: hash every rel of the list that is not None.
add_hashes(hashes, rels, files) ==
    IF Len(rels) = 0 THEN hashes
    ELSE LET rel == Head(rels)
         IN  add_hashes(IF IsSome(rel)
                        THEN dict_set(hashes, rel[1],
                                      sha256_file(files, rel[1]))
                        ELSE hashes,
                        Tail(rels), files)

\* Variant of proof_rels that leaves out the two checker reports.
proof_rels_no_reports(r) == <<r.drat_relpath, r.lrat_relpath>>

\* pack.py 85: the optional proof paths and the two checker reports.
proof_rels(r) ==
    <<r.drat_relpath, r.lrat_relpath, Some(DratChkRel), Some(LratChkRel)>>

\* pack.py 85-87: some rel of the list names a directory; sha256_file, which
\* opens the path for reading, raises IsADirectoryError on it.
hashes_directory(rels, files) ==
    \E i \in 1..Len(rels) : IsSome(rels[i]) /\ is_dir(files, rels[i][1])

\* pack.py 78-90: hash the artifacts, the manifest as just written among
\* them, store the map in the manifest and overwrite the manifest file. An
\* error raised while hashing leaves the manifest of the first write.
SealHashes ==
    /\ pc = "seal"
    /\ IF hashes_directory(proof_rels(res), fs)
       THEN /\ Raise("IsADirectoryError")
            /\ UNCHANGED <<fs, manifest>>
       ELSE LET hashes == add_hashes(base_hashes(fs), proof_rels(res), fs)
                m == [manifest[1] EXCEPT !.hashes = hashes]
            IN  /\ manifest' = Some(m)
                /\ fs' = [fs EXCEPT ![ManifestRel] = Some(json_dumps(m))]
                /\ pc' = "validate"
                /\ exc' = exc
    /\ UNCHANGED <<env, cleanup, dirs, p, e, status, chk_drat, res, spawned, changed,
                   verif>>

\* pack.py 93-97: the manifest validates against the schema; return run_id.
ValidateSchema ==
    /\ pc = "validate"
    /\ pc' = "done"
    /\ UNCHANGED <<env, cleanup, exc, dirs, fs, p, e, status, chk_drat, res, manifest,
                   spawned, changed, verif>>

\* The exceptions of pack.py 93-95: the schema file is absent (read_text),
\* is not JSON (json.loads), is not a valid schema (check_schema), or
\* rejects the manifest (validate).
SchemaFailures ==
    {"FileNotFoundError", "JSONDecodeError", "SchemaError", "ValidationError"}

\* pack.py 93-95: loading the schema, checking it or validating the manifest
\* raises.
ValidateSchemaFails ==
    /\ pc = "validate"
    /\ \E name \in SchemaFailures : Raise(name)
    /\ UNCHANGED <<env, cleanup, dirs, fs, p, e, status, chk_drat, res, manifest, spawned,
                   changed, verif>>

(* ---------------------- verify_run_bundle_hashes ----------------------- *)

RECURSIVE verify_entries(_, _, _)
\* pack.py 109-121: the loop over expected.items(), from entry i on.
verify_entries(expected, i, files) ==
    IF i > Len(expected) THEN [ok |-> TRUE, details |-> <<>>]
    ELSE LET rel == expected[i][1]
             exp == expected[i][2]
             rest == verify_entries(expected, i + 1, files)
         IN  IF IsNone(files[rel])
             THEN [ok |-> FALSE,
                   details |-> << <<"missing", rel>> >> \o rest.details]
             ELSE LET got == sha256_file(files, rel)
                  IN  IF got /= exp
                      THEN [ok |-> FALSE,
                            details |-> << <<"mismatch", rel, exp, got>> >>
                                        \o rest.details]
                      ELSE rest

\* pack.py 100-121
verify_run_bundle_hashes(files) ==
    IF IsNone(files[ManifestRel])
    THEN [ok |-> FALSE, details |-> << <<"manifest not found", ManifestRel>> >>]
    ELSE LET expected == json_loads(files[ManifestRel][1]).hashes
         IN  IF ~is_dict(expected)
             THEN [ok |-> FALSE, details |-> << <<"invalid hashes field">> >>]
             ELSE verify_entries(expected.items, 1, files)

Ended == pc \in {"done", "raised"}

\* The files after a verification that writes the recomputed digests back
\* into the manifest.
resealed(files) ==
    IF IsNone(files[ManifestRel]) \/ ~is_dict(files[ManifestRel][1].hashes)
    THEN files
    ELSE LET m == files[ManifestRel][1]
             h == m.hashes.items
             fresh == [i \in 1..Len(h) |->
                         IF IsSome(files[h[i][1]])
                         THEN <<h[i][1], sha256_file(files, h[i][1])>>
                         ELSE h[i]]
         IN  [files EXCEPT ![ManifestRel] =
                 Some([m EXCEPT !.hashes = [type |-> "object",
                                            items |-> fresh]])]

\* Variant of Verify that repairs the manifest it checks.
VerifyAndReseal ==
    /\ pc \in {"done", "raised"}
    /\ IsNone(verif)
    /\ verif' = Some(verify_run_bundle_hashes(fs))
    /\ fs' = resealed(fs)
    /\ UNCHANGED <<env, cleanup, pc, exc, dirs, p, e, status, chk_drat, res, manifest,
                   spawned, changed>>

\* cli.py 19-26: reproduce, after the demo command has ended.
Verify ==
    /\ Ended
    /\ IsNone(verif)
    /\ verif' = Some(verify_run_bundle_hashes(fs))
    /\ UNCHANGED <<env, cleanup, pc, exc, dirs, fs, p, e, status, chk_drat, res, manifest,
                   spawned, changed>>

(* ------------------ the environment changes the bundle ----------------- *)

\* s with its first byte replaced by another one (one byte added if empty).
FlipByte(s) ==
    IF Len(s) = 0 THEN <<"x">>
    ELSE [s EXCEPT ![1] = IF @ = "x" THEN "y" ELSE "x"]

\* The content of file f with a single byte changed.
MutatedContent(f, c) ==
    IF f \in {DratChkRel, LratChkRel}
    THEN [c EXCEPT !.stdout = FlipByte(@)]
    ELSE FlipByte(c)

\* The artifacts of a created bundle are changed after
\* create_demo_run_bundle returned and before the bundle is verified.
CanChange(f) ==
    /\ pc = "done"
    /\ IsNone(verif)
    /\ IsSome(fs[f])
    /\ f \notin changed
    /\ Cardinality(changed) < MaxChanges

\* Someone edits an artifact of the run directory other than the manifest.
MutateFile ==
    /\ \E f \in Paths \ {ManifestRel} :
          /\ CanChange(f)
          /\ fs' = [fs EXCEPT ![f] = Some(MutatedContent(f, @[1]))]
          /\ changed' = changed \cup {f}
    /\ UNCHANGED <<env, cleanup, pc, exc, dirs, p, e, status, chk_drat, res, manifest,
                   spawned, verif>>

\* Someone deletes a file of the run directory.
DeleteFile ==
    /\ \E f \in Paths :
          /\ CanChange(f)
          /\ fs' = [fs EXCEPT ![f] = None]
          /\ changed' = changed \cup {f}
    /\ UNCHANGED <<env, cleanup, pc, exc, dirs, p, e, status, chk_drat, res, manifest,
                   spawned, verif>>

\* Someone replaces the hashes object of the manifest by an empty JSON array.
CorruptManifest ==
    /\ CanChange(ManifestRel)
    /\ fs' = [fs EXCEPT ![ManifestRel] =
                 Some([@[1] EXCEPT !.hashes = [type |-> "array",
                                               items |-> <<>>]])]
    /\ changed' = changed \cup {ManifestRel}
    /\ UNCHANGED <<env, cleanup, pc, exc, dirs, p, e, status, chk_drat, res, manifest,
                   spawned, verif>>

(* --------------------------- specification ----------------------------- *)

Next ==
    \/ StartBundle
    \/ RequireExes
    \/ RunSolverTimeout
    \/ RunSolver
    \/ CheckDrat
    \/ ProduceLratTimeout
    \/ ProduceLrat
    \/ CheckLrat
    \/ WriteManifest
    \/ SealHashes
    \/ ValidateSchema
    \/ ValidateSchemaFails
    \/ Verify
    \/ MutateFile
    \/ DeleteFile
    \/ CorruptManifest

Spec == Init /\ [][Next]_vars

(* ------------------------------ claims --------------------------------- *)

Results == {"SAT", "UNSAT", "UNKNOWN", "ERROR", "TIMEOUT"}

\* run_sat_two_checker has returned a SatExecResult.
Returned == res.result /= ""

\* The manifest file as json.loads reads it.
DiskManifest == json_loads(fs[ManifestRel][1])

\* C1: a returned result is UNSAT only if the drat-trim record and the
\* lrat-trim record both exist and both have ok = true with exit code 0 (and,
\* at the return, both reports are persisted as such); every returned
\* result is one of the five statuses.
UnsatOnlyWithTwoPassingChecks ==
    /\ Returned => res.result \in Results
    /\ res.result = "UNSAT" =>
          /\ IsSome(res.check_drat) /\ IsSome(res.check_lrat)
          /\ res.check_drat[1].checker = "drat-trim"
          /\ res.check_lrat[1].checker = "lrat-trim"
          /\ res.check_drat[1].ok /\ res.check_drat[1].returncode = 0
          /\ res.check_lrat[1].ok /\ res.check_lrat[1].returncode = 0
          /\ spawned = <<"cadical-drat", "drat-trim", "cadical-lrat",
                         "lrat-trim">>
          /\ pc = "returned" =>
                /\ fs[DratChkRel] = Some(to_json(res.check_drat[1]))
                /\ fs[LratChkRel] = Some(to_json(res.check_lrat[1]))

\* C1 witness: a run returned UNSAT after both checkers exited 0.
UnsatReturned ==
    /\ pc = "returned"
    /\ res.result = "UNSAT"
    /\ res.check_drat[1].ok /\ res.check_lrat[1].ok

\* drat-trim exited non-zero, the LRAT proof was non-empty and lrat-trim
\* exited 0, and run_sat_two_checker has just returned.
DratFailedLratPassed ==
    /\ pc = "returned"
    /\ Len(spawned) = 4
    /\ chk_drat[1].returncode /= 0
    /\ Len(fs[LratRel][1]) > 0
    /\ fs[LratChkRel][1].returncode = 0

\* C2: when drat-trim exits non-zero, the LRAT proof is non-empty and
\* lrat-trim exits 0, the result is ERROR and it carries both proof paths and
\* both check records, check_drat with ok = false and check_lrat with
\* ok = true.
FirstFailsSecondPassesIsError ==
    DratFailedLratPassed =>
        /\ res.result = "ERROR"
        /\ res.drat_relpath = Some(DratRel)
        /\ res.lrat_relpath = Some(LratRel)
        /\ IsSome(res.check_drat) /\ IsSome(res.check_lrat)
        /\ res.check_drat = chk_drat
        /\ ~res.check_drat[1].ok
        /\ res.check_lrat[1].ok
        /\ res.check_lrat[1].returncode = 0

\* C2 witness: the first checker failed, the second passed, ERROR returned.
FirstFailedSecondPassed ==
    /\ DratFailedLratPassed
    /\ res.result = "ERROR"
    /\ ~res.check_drat[1].ok
    /\ res.check_lrat[1].ok

\* C3: with the three executables present, run_sat_two_checker never raises
\* once the solver was spawned: every raise that follows comes after it
\* returned a SatExecResult.
PipelineNeverRaises ==
    (exes = Executables /\ Len(spawned) > 0 /\ pc = "raised") => Returned

\* C4: when the first solver run times out, the result is TIMEOUT with the
\* captured partial stdout and stderr ("" when nothing was captured), the two
\* proof paths and the two check records are absent, and no later stage runs:
\* the first solver run stays the only process spawned and no checker report
\* or LRAT proof is ever written.
TimeoutEndsPipeline ==
    IsSome(e) =>
        /\ res.result = "TIMEOUT"
        /\ IsSome(e[1].stdout) => res.stdout = e[1].stdout[1]
        /\ IsNone(e[1].stdout) => res.stdout = <<>>
        /\ IsSome(e[1].stderr) => res.stderr = e[1].stderr[1]
        /\ IsNone(e[1].stderr) => res.stderr = <<>>
        /\ IsNone(res.drat_relpath) /\ IsNone(res.lrat_relpath)
        /\ IsNone(res.check_drat) /\ IsNone(res.check_lrat)
        /\ spawned = <<"cadical-drat">>
        /\ IsNone(fs[DratChkRel]) /\ IsNone(fs[LratChkRel])
        /\ IsNone(fs[LratRel])

\* C4 witness: a timed-out run returned TIMEOUT with non-empty partial output.
TimeoutReturned ==
    /\ IsSome(e)
    /\ res.result = "TIMEOUT"
    /\ Len(res.stdout) > 0
    /\ Len(res.stderr) > 0

\* C5: a bundle verified right after its successful creation, no file
\* changed in between, yields ok = true and empty details.
FreshBundleVerifies ==
    (pc = "done" /\ changed = {} /\ IsSome(verif)) =>
        /\ verif[1].ok
        /\ verif[1].details = <<>>

\* C6: after the content of exactly one proof file of a sealed bundle was
\* changed, verification yields ok = false and exactly one details entry, a
\* mismatch naming that proof file.
SingleProofMutationReported ==
    \A f \in {DratRel, LratRel} :
        (pc = "done" /\ changed = {f} /\ IsSome(fs[f]) /\ IsSome(verif)) =>
            /\ ~verif[1].ok
            /\ Len(verif[1].details) = 1
            /\ verif[1].details[1][1] = "mismatch"
            /\ verif[1].details[1][2] = f

\* The values of an Optional as a set.
OptSet(o) == { o[i] : i \in 1..Len(o) }

\* The artifact paths a manifest references outside its hashes map.
ReferencedPaths(m) ==
    {m.inputs.bundle_cnf_path, m.outputs.stdout_path, m.outputs.stderr_path,
     m.outputs.drat_check_path, m.outputs.lrat_check_path}
    \cup OptSet(m.outputs.drat_proof_path)
    \cup OptSet(m.outputs.lrat_proof_path)

\* C7: in the manifest left by a successful create_demo_run_bundle the keys
\* of the hashes map are exactly the paths referenced elsewhere in the
\* manifest together with manifest.json, each key once.
HashKeysAreReferencedPaths ==
    (pc = "done" /\ ManifestRel \notin changed) =>
        /\ IsSome(fs[ManifestRel])
        /\ is_dict(DiskManifest.hashes)
        /\ dict_keys(DiskManifest.hashes.items)
             = ReferencedPaths(DiskManifest) \cup {ManifestRel}
        /\ Len(DiskManifest.hashes.items)
             = Cardinality(dict_keys(DiskManifest.hashes.items))

\* C7 witness: a bundle was created and its manifest has a hashes map.
BundleCreated ==
    /\ pc = "done"
    /\ ManifestRel \notin changed
    /\ Len(DiskManifest.hashes.items) > 0

\* The manifest on disk is the sealed one (written by the second write).
Sealed ==
    /\ \/ pc \in {"validate", "done"}
       \/ pc = "raised" /\ exc \in SchemaFailures /\ Returned
    /\ ManifestRel \notin changed

\* C8: every sealed manifest of a run whose final status is UNSAT has a
\* hashes entry for the DRAT proof, the LRAT proof and both checker reports.
UnsatManifestHashesProofs ==
    (Sealed /\ res.result = "UNSAT") =>
        /\ DiskManifest.outputs.result = "UNSAT"
        /\ {DratRel, LratRel, DratChkRel, LratChkRel}
             \subseteq dict_keys(DiskManifest.hashes.items)

\* C8 witness: the manifest of an UNSAT run is sealed.
UnsatManifestSealed ==
    /\ Sealed
    /\ res.result = "UNSAT"
    /\ DratRel \in dict_keys(DiskManifest.hashes.items)

\* The stripped lines of out that begin with the "s " solution marker.
solution_lines(out) ==
    LET ls == splitlines(out)
    IN  SelectSeq([i \in 1..Len(ls) |-> strip(ls[i])],
                  LAMBDA l : startswith(l, Marker))

\* The first solution line of out, None when there is none.
first_solution_line(out) ==
    IF Len(solution_lines(out)) = 0 THEN None
    ELSE Some(Head(solution_lines(out)))

\* C9: an output whose first solution line is "s UNSATISFIABLE" classifies
\* as UNSAT (never SAT), "s SATISFIABLE" as SAT, "s UNKNOWN" as UNKNOWN, and
\* an output without a solution line as UNKNOWN.
SolutionLineClassified ==
    status /= "" =>
        LET first == first_solution_line(p.stdout)
        IN  /\ first = Some(LineUnsat) => status = "UNSAT"
            /\ first = Some(LineSat) => status = "SAT"
            /\ first = Some(LineUnknown) => status = "UNKNOWN"
            /\ first = None => status = "UNKNOWN"

\* C9 witness: an output deciding with "s UNSATISFIABLE" was classified.
UnsatLineClassified ==
    /\ status = "UNSAT"
    /\ first_solution_line(p.stdout) = Some(LineUnsat)

\* C10: the status depends on the first solution line only: any two outputs
\* with the same first solution line classify alike, whatever follows it.
FirstSolutionLineDecides ==
    status /= "" =>
        \A o \in SolverOutputs :
            first_solution_line(o) = first_solution_line(p.stdout)
                => _parse_dimacs_status(o) = status

\* The first solver run completed and was classified SAT or UNKNOWN.
NotClassifiedUnsat == status /= "" /\ status /= "UNSAT"

\* C11: when the first solver run is classified SAT or UNKNOWN, the result is
\* ERROR if the solver exited non-zero and the classified status unchanged
\* if it exited with code 0.
NonZeroExitIsError ==
    NotClassifiedUnsat =>
        /\ Returned
        /\ p.returncode /= 0 => res.result = "ERROR"
        /\ p.returncode = 0 => res.result = status

\* C11 witness: a run classified SAT exited non-zero and returned ERROR.
SatWithNonZeroExit ==
    /\ status = "SAT"
    /\ p.returncode /= 0
    /\ res.result = "ERROR"

\* C12: verify_run_bundle_hashes is a pure read: whatever it returns, the
\* call leaves the directories and every file of the run directory, the
\* manifest included, as they were.
VerifyIsPureRead ==
    [][verif' /= verif => (fs' = fs /\ dirs' = dirs)]_vars

\* C12 witness: a verification has returned a failure for a bundle whose
\* manifest exists.
VerifyReportedFailure ==
    /\ IsSome(verif)
    /\ ~verif[1].ok
    /\ IsSome(fs[ManifestRel])

\* C13: when the benchmark fixture does not exist, create_demo_run_bundle
\* raises FileNotFoundError before any pipeline stage: no process is ever
\* spawned, no file (manifest.json included) is written, run_sat_two_checker
\* is not entered, and only the run directory itself may exist.
MissingFixtureRaisesFirst ==
    IsNone(cnf_src) =>
        /\ pc \in {"start", "raised"}
        /\ pc = "raised" => exc = "FileNotFoundError"
        /\ spawned = <<>>
        /\ ~Returned
        /\ \A f \in Paths : IsNone(fs[f])
        /\ dirs \subseteq {"run"}

\* C13 witness: the call raised for a missing fixture, the run directory
\* already made.
MissingFixtureRaised ==
    /\ IsNone(cnf_src)
    /\ pc = "raised"
    /\ dirs = {"run"}

\* C14: whenever create_demo_run_bundle aborts with an error raised for an
\* unusable environment (missing executable, missing fixture, schema
\* validation failure), the run directory holds no manifest.json.
NoManifestAfterAbort ==
    (pc = "raised" /\ exc \in {"FileNotFoundError"} \cup SchemaFailures
        /\ ManifestRel \notin changed)
        => IsNone(fs[ManifestRel])

\* The run ended at the classification of the first solver run: the result
\* is returned at once, the first solver run stays the only process spawned,
\* no checker report and no LRAT proof is written, and the result has no
\* proof path and no check record.
EndedAtClassification ==
    /\ Returned
    /\ res.result \in {"SAT", "UNKNOWN", "ERROR"}
    /\ res.stdout = p.stdout /\ res.stderr = p.stderr
    /\ spawned = <<"cadical-drat">>
    /\ IsNone(fs[LratRel])
    /\ IsNone(fs[DratChkRel]) /\ IsNone(fs[LratChkRel])
    /\ IsNone(res.drat_relpath) /\ IsNone(res.lrat_relpath)
    /\ IsNone(res.check_drat) /\ IsNone(res.check_lrat)

\* C15 as stated: when the first solver run is classified SAT or UNKNOWN,
\* the run ends at that stage and the DRAT proof file produced as a side
\* effect no longer exists: there is no file at proofs/proof.drat.
NonUnsatEndsAtClassification ==
    NotClassifiedUnsat =>
        /\ EndedAtClassification
        /\ ~is_file(fs, DratRel)

\* C15 amended: when the first solver run is classified SAT or UNKNOWN, the
\* run ends at that stage after one attempt to delete proofs/proof.drat:
\* nothing exists at that path unless unlink raised, and then the error was
\* swallowed and the path is left in place.
NonUnsatDeletesProofBestEffort ==
    NotClassifiedUnsat =>
        /\ EndedAtClassification
        /\ cleanup \in {"absent", "deleted", "failed"}
        /\ cleanup \in {"absent", "deleted"} => ~exists(fs, DratRel)
        /\ (cleanup = "failed" /\ DratRel \notin changed) =>
              exists(fs, DratRel)

\* C15 witness: a run classified UNKNOWN has returned after unlink removed
\* the proof file the solver had written.
ProofFileDeleted ==
    /\ status = "UNKNOWN"
    /\ res.result = "UNKNOWN"
    /\ pc = "returned"
    /\ cleanup = "deleted"
    /\ ~exists(fs, DratRel)

\* The solver reported UNSAT, drat-trim has run, and the LRAT proof written
\* from the second solver run is empty.
EmptyLratWritten ==
    /\ status = "UNSAT"
    /\ IsSome(chk_drat)
    /\ LratRel \notin changed
    /\ IsSome(fs[LratRel])
    /\ Len(fs[LratRel][1]) = 0

\* C16: on an empty LRAT proof the result is ERROR with stderr tagged
\* "missing or empty LRAT proof"; it keeps drat_relpath and the check_drat
\* record as obtained, passing or failing, has no lrat_relpath and no
\* check_lrat, and lrat-trim is not run.
EmptyLratKeepsDratStage ==
    EmptyLratWritten =>
        /\ res.result = "ERROR"
        /\ res.stdout = p.stdout
        /\ res.stderr = p.stderr \o TagLrat
        /\ res.drat_relpath = Some(DratRel)
        /\ res.check_drat = chk_drat
        /\ res.check_drat[1].ok = (res.check_drat[1].returncode = 0)
        /\ IsNone(res.lrat_relpath) /\ IsNone(res.check_lrat)
        /\ spawned = <<"cadical-drat", "drat-trim", "cadical-lrat">>
        /\ IsNone(fs[LratChkRel])

\* C16 witness: an empty LRAT proof ended a run whose DRAT check had passed.
EmptyLratAfterPassingDrat ==
    /\ EmptyLratWritten
    /\ res.result = "ERROR"
    /\ res.check_drat[1].ok

\* The external processes of a complete certification, in order.
StageOrder == <<"cadical-drat", "drat-trim", "cadical-lrat", "lrat-trim">>

IsPrefix(s, t) == Len(s) <= Len(t) /\ s = SubSeq(t, 1, Len(s))

\* The solver claimed UNSAT and left a non-empty DRAT proof.
UnsatWithDratProof ==
    /\ status = "UNSAT"
    /\ DratRel \notin changed
    /\ IsSome(fs[DratRel])
    /\ Len(fs[DratRel][1]) > 0

\* The second solver run has written a non-empty LRAT proof.
LratProofWritten ==
    /\ LratRel \notin changed
    /\ IsSome(fs[LratRel])
    /\ Len(fs[LratRel][1]) > 0

\* C17: neither checker is skipped because of the other. The processes run
\* in the order solver, drat-trim, second solver, lrat-trim; the drat-trim
\* record is persisted before the LRAT proof is produced; no result is
\* returned while a stage is pending; a run on an UNSAT claim with a
\* non-empty DRAT proof never ends before drat-trim and the second solver
\* invocation ran, whatever drat-trim reported; and once the LRAT proof is
\* non-empty the result is returned only after lrat-trim ran and its record
\* was persisted.
CheckersNeverSkipped ==
    /\ IsPrefix(spawned, StageOrder)
    /\ IsSome(chk_drat) <=> Len(spawned) >= 2
    /\ (Len(spawned) >= 2 /\ DratChkRel \notin changed) =>
          fs[DratChkRel] = Some(to_json(chk_drat[1]))
    /\ (Len(spawned) = 4 /\ LratRel \notin changed) =>
          IsSome(fs[LratRel]) /\ Len(fs[LratRel][1]) > 0
    /\ pc \in {"check_drat", "produce_lrat", "check_lrat"} => ~Returned
    /\ (UnsatWithDratProof /\ (Returned \/ pc = "raised")) =>
          Len(spawned) >= 3
    /\ (UnsatWithDratProof /\ LratProofWritten /\ Returned) =>
          /\ spawned = StageOrder
          /\ IsSome(res.check_drat) /\ IsSome(res.check_lrat)
          /\ LratChkRel \notin changed =>
                fs[LratChkRel] = Some(to_json(res.check_lrat[1]))

\* C17 witness: drat-trim failed and lrat-trim was still run and recorded
\* before the result was returned.
LratCheckedAfterDratFailed ==
    /\ pc = "returned"
    /\ spawned = StageOrder
    /\ ~res.check_drat[1].ok
    /\ fs[LratChkRel] = Some(to_json(res.check_lrat[1]))

\* The solver claimed UNSAT and proofs/proof.drat is missing or has size zero.
UnsatWithoutDratProof ==
    /\ status = "UNSAT"
    /\ DratRel \notin changed
    /\ \/ IsNone(fs[DratRel])
       \/ IsSome(fs[DratRel]) /\ Len(fs[DratRel][1]) = 0

\* C18: when the solver reports UNSAT and the DRAT proof file is missing or
\* has size zero, the returned result is ERROR with the solver's stdout, the
\* solver's stderr followed by the tag "missing or empty DRAT proof", no
\* proof paths and no check records; the first solver run is the only
\* process executed, and no check report or LRAT proof is written.
MissingDratIsError ==
    UnsatWithoutDratProof =>
        /\ res = SatExecResult("ERROR", p.stdout, p.stderr \o TagDrat,
                               None, None, None, None)
        /\ contains(<<"m", "i", "s", "s", "i", "n", "g", " ", "o", "r", " ", "e", "m", "p", "t", "y", " ", "D", "R", "A", "T", " ", "p", "r", "o", "o", "f">>, res.stderr)
        /\ spawned = <<"cadical-drat">>
        /\ IsNone(chk_drat)
        /\ \A f \in {DratChkRel, LratRel, LratChkRel} : IsNone(fs[f])

\* C18 witness: an UNSAT claim whose proof file exists with size zero has
\* been returned as ERROR.
EmptyDratReturned ==
    /\ UnsatWithoutDratProof
    /\ IsSome(fs[DratRel])
    /\ res.result = "ERROR"

\* The number of leading certification stages a result records, if its
\* partial fields record a prefix of (DRAT proof and check, LRAT proof and
\* check) at all.
RecordsStages(r, n) ==
    /\ IsSome(r.drat_relpath) <=> n >= 1
    /\ IsSome(r.check_drat) <=> n >= 1
    /\ IsSome(r.lrat_relpath) <=> n >= 2
    /\ IsSome(r.check_lrat) <=> n >= 2

\* C19: every returned SatExecResult records a prefix of the certification
\* stages: check_drat is present iff drat_relpath is, check_lrat iff
\* lrat_relpath is, and lrat_relpath only with drat_relpath; SAT, UNKNOWN
\* and TIMEOUT record no stage, UNSAT records both; every check record has
\* ok = (returncode = 0).
ResultRecordsStagePrefix ==
    Returned =>
        /\ \E n \in 0..2 : RecordsStages(res, n)
        /\ IsSome(res.check_drat) <=> IsSome(res.drat_relpath)
        /\ IsSome(res.check_lrat) <=> IsSome(res.lrat_relpath)
        /\ IsSome(res.lrat_relpath) => IsSome(res.drat_relpath)
        /\ res.result \in {"SAT", "UNKNOWN", "TIMEOUT"} =>
              RecordsStages(res, 0)
        /\ res.result = "UNSAT" => RecordsStages(res, 2)
        /\ \A c \in {res.check_drat, res.check_lrat} :
              IsSome(c) => (c[1].ok <=> c[1].returncode = 0)

\* C19 witness: a result that records the DRAT stage only, with a failed
\* drat-trim record.
DratStageOnlyReturned ==
    /\ Returned
    /\ RecordsStages(res, 1)
    /\ ~res.check_drat[1].ok
    /\ res.check_drat[1].returncode /= 0

\* C20: a bundle is sealed only for a doubly-verified UNSAT outcome. Once
\* create_demo_run_bundle has acted on a returned result other than UNSAT it
\* has raised RuntimeError, and solver_stdout.txt, solver_stderr.txt and
\* manifest.json do not exist; every manifest.json on disk records
\* outputs.result = UNSAT, for a returned result UNSAT backed by two passing
\* check records.
OnlyVerifiedUnsatIsSealed ==
    /\ (Returned /\ res.result /= "UNSAT" /\ pc /= "returned") =>
          /\ pc = "raised"
          /\ exc = "RuntimeError"
          /\ \A f \in {StdoutTxt, StderrTxt, ManifestRel} : IsNone(fs[f])
    /\ IsSome(fs[ManifestRel]) =>
          /\ DiskManifest.outputs.result = "UNSAT"
          /\ res.result = "UNSAT"
          /\ res.check_drat[1].ok /\ res.check_lrat[1].ok

\* C20 witness: the pipeline returned ERROR after both checkers ran and the
\* bundle creation raised, leaving no logs and no manifest.
ErrorResultRejected ==
    /\ pc = "raised"
    /\ exc = "RuntimeError"
    /\ res.result = "ERROR"
    /\ spawned = StageOrder
    /\ IsNone(fs[ManifestRel])

====
